---- MODULE Spec2Model ----
(***************************************************************************)
(* Model of the TaskSpawner process supervisor (spawner.util.ts): the      *)
(* registry of SpawnedProcess records, the per-name output buffers, the    *)
(* line splitting of piped output, the exit/error listeners and the wait   *)
(* operations.  Node runs every callback to completion on one thread: an   *)
(* action is one callback, cut only at the places where the supervisor     *)
(* emits an event from inside the exit listener, because a subscriber that *)
(* runs there may call the public operations.                              *)
(***************************************************************************)
EXTENDS Integers, Sequences, FiniteSets, TLC

(***************************************************************************)
(* Bounds of the model.                                                    *)
(***************************************************************************)
MaxProcs == 2
MaxWaits == 2
MaxWaitAlls == 1
MaxErrors == 1
MaxChunks == 3
MaxChunkLen == 2
MaxTasks == 2
MaxCalls == 1
MaxSubs == 1
MaxSnapshots == 1
MaxEdits == 1
MaxOps == 2
MaxMaps == 2
MaxGot == 2

(***************************************************************************)
(* Values.  JavaScript's null (exitCode, endTime) and undefined (a Map     *)
(* lookup that finds nothing) are integers outside the ranges used.        *)
(***************************************************************************)
Null == -1
Undefined == 0

NL == "\n"
LeadByte == "C3"
ContByte == "A9"
EAcute == "U+00E9"
Replacement == "U+FFFD"

Bytes == {"a", NL, LeadByte, ContByte}

RECURSIVE Flatten(_)
Flatten(ss) == IF ss = <<>> THEN <<>> ELSE Head(ss) \o Flatten(Tail(ss))

(* data.toString(): UTF-8 decoding of ONE chunk.  A lead byte followed by   *)
(* its continuation byte is one character; a lead byte with no continuation *)
(* in the same chunk and a continuation byte with no lead byte each decode  *)
(* to U+FFFD.                                                               *)
RECURSIVE toString(_)
toString(data) ==
    IF data = <<>> THEN <<>>
    ELSE IF Head(data) = LeadByte
         THEN IF Len(data) >= 2 /\ data[2] = ContByte
              THEN <<EAcute>> \o toString(SubSeq(data, 3, Len(data)))
              ELSE <<Replacement>> \o toString(Tail(data))
         ELSE IF Head(data) = ContByte
              THEN <<Replacement>> \o toString(Tail(data))
              ELSE <<Head(data)>> \o toString(Tail(data))

(* currentBuffer.split('\n') *)
RECURSIVE split(_)
split(s) ==
    IF \E i \in 1..Len(s) : s[i] = NL
    THEN LET i == CHOOSE k \in 1..Len(s) :
                     s[k] = NL /\ \A j \in 1..(k - 1) : s[j] # NL
         IN  <<SubSeq(s, 1, i - 1)>> \o split(SubSeq(s, i + 1, Len(s)))
    ELSE <<s>>

(* lines.pop() || '' : the last piece stays in the buffer *)
Remainder(s) == LET lines == split(s) IN lines[Len(lines)]

(* the complete lines, each pushed and emitted as line + '\n' *)
CompleteLines(s) ==
    LET lines == split(s)
    IN  [i \in 1..(Len(lines) - 1) |-> lines[i] \o <<NL>>]

(***************************************************************************)
(* Inputs of the model.  A name is a pair: a label L is <<L, 0>> and the    *)
(* default name `${command}_${N}` is <<command, N>>.  A script is what a    *)
(* child process writes, as the chunks in which its pipes deliver it.       *)
(***************************************************************************)
NoLabel == <<"", 0>>
LabelA == <<"A", 0>>
Labels == {NoLabel, LabelA}
Commands == {"cmd"}
(* an executable path the OS cannot launch (ENOENT) *)
BadCommand == "/nonexistent"
Launches(command) == command # BadCommand
ExitCodes == {0, 1}

ScriptAB == [stdout |-> << <<"a">>, <<"b">> >>, stderr |-> <<>>]
ScriptHello == [stdout |-> << <<"h", "e", "l", "l", "o", NL>> >>, stderr |-> <<>>]
ScriptBoth == [stdout |-> << <<"a", NL, "b">> >>, stderr |-> << <<"e">> >>]
ScriptFragment == [stdout |-> << <<"a">> >>, stderr |-> <<>>]
Scripts == {ScriptAB, ScriptHello, ScriptBoth, ScriptFragment}

Streams == {"stdout", "stderr"}

VARIABLES
    processes,      \* this.processes: name -> record (an index of recs)
    processCounter, \* this.processCounter
    outputBuffers,  \* this.outputBuffers: name -> buffer object (an index of bufs)
    recs,           \* the SpawnedProcess objects, in creation order
    bufs,           \* the { stdout, stderr } buffer objects, in creation order
    child,          \* the child processes: what the OS still has to deliver
    listeners,      \* per child, the 'exit' listeners added by waitForProcess
    waiters,        \* the promises returned by waitForProcess, in call order
    waitAlls,       \* the waitForAll calls, in call order
    emitted,        \* per record, the data of the stdout/stderr events emitted
    handler,        \* the exit listener that is running, and where it stands
    calls,          \* what the callers that keep a call's result got back
    uncaught,       \* the exceptions thrown out of a listener of a child process
    errorListeners, \* the subscribers of the supervisor's 'error' event
    snapshots,      \* the maps that getAllProcesses / getRunningProcesses returned
    filePaths,      \* LocatorCache.filePaths: key -> path of a locator file
    files,          \* the disk: path -> what reading and parsing the file gives
    locatorData,    \* LocatorCache.data: key -> the collection object loaded
    loadedFiles,    \* LocatorCache.loadedFiles
    locatorMapData, \* LocatorMapCache.data
    got,            \* what the callers of the caches' get got back, and hold
    reads,          \* the files LocatorCache has read from the disk, in order
    cli             \* the CLI program: its arguments, environment and exit

vars == <<processes, processCounter, outputBuffers, recs, bufs, child,
          listeners, waiters, waitAlls, emitted, handler, calls, uncaught,
          errorListeners, snapshots, filePaths, files, locatorData, loadedFiles,
          locatorMapData, got, reads, cli>>

(* the part of the state that the supervisor's listeners and its spawn,    *)
(* kill, wait and clear operations never touch: the subscribers, the maps  *)
(* handed to callers, and the locator caches                               *)
elsewhere == <<errorListeners, snapshots, filePaths, files, locatorData,
               loadedFiles, locatorMapData, got, reads, cli>>

(* the CLI program has not been started *)
NoCli == [pc |-> "off", argv |-> <<>>, opts |-> <<>>, env |-> <<>>,
          launch |-> <<>>, status |-> <<>>]

(* no subscriber, no map handed out, and no locator file *)
InitElsewhere ==
    /\ errorListeners = 0
    /\ snapshots = <<>>
    /\ filePaths = <<>>
    /\ files = <<>>
    /\ locatorData = <<>>
    /\ loadedFiles = {}
    /\ locatorMapData = <<>>
    /\ got = <<>>
    /\ reads = <<>>
    /\ cli = NoCli

Pids == 1..Len(recs)
Idle == [kind |-> "idle", pid |-> 0, code |-> Null, pc |-> "none",
         snap |-> <<>>, buf |-> Undefined]

Init ==
    /\ processes = <<>>
    /\ processCounter = 0
    /\ outputBuffers = <<>>
    /\ recs = <<>>
    /\ bufs = <<>>
    /\ child = <<>>
    /\ listeners = <<>>
    /\ waiters = <<>>
    /\ waitAlls = <<>>
    /\ emitted = <<>>
    /\ handler = Idle
    /\ calls = <<>>
    /\ uncaught = 0
    /\ InitElsewhere

(* new Date() as stored in a record's endTime: every reading of the clock   *)
(* is later than the one the record holds                                   *)
Date(rec) == IF rec.endTime = Null THEN 1 ELSE rec.endTime + 1

(* Map.get *)
Get(map, name) == IF name \in DOMAIN map THEN map[name] ELSE Undefined
(* Map.set *)
Set(map, name, v) == [n \in (DOMAIN map) \cup {name} |-> IF n = name THEN v ELSE map[n]]
(* Map.delete *)
Delete(map, name) == [n \in (DOMAIN map) \ {name} |-> map[n]]

getProcess(processName) == Get(processes, processName)

(***************************************************************************)
(* spawn(command, args, options)                                           *)
(***************************************************************************)
(* logPrefix || `${command}_${++this.processCounter}` *)
ProcessName(counter, command, logPrefix) ==
    IF logPrefix[1] # "" THEN logPrefix ELSE <<command, counter + 1>>

(* the SpawnedProcess object once the child is started (lines 99-121) *)
NewRecord(processName, stdioConfig, captureOutput) ==
    [name |-> processName,
     stdout |-> <<>>, stderr |-> <<>>,
     isRunning |-> TRUE,
     exitCode |-> Null,
     endTime |-> Null,
     stdioConfig |-> stdioConfig,
     captureOutput |-> captureOutput]

(* the child process started by execa: with stdio 'pipe' it delivers what   *)
(* it writes through child.stdout / child.stderr, with 'inherit' it writes  *)
(* to the terminal and has no such streams                                  *)
NewChild(stdioConfig, script) ==
    [stdout |-> IF stdioConfig = "pipe" THEN script.stdout ELSE <<>>,
     stderr |-> IF stdioConfig = "pipe" THEN script.stderr ELSE <<>>,
     wrote |-> IF stdioConfig = "pipe" THEN script
               ELSE [stdout |-> <<>>, stderr |-> <<>>],
     launched |-> TRUE,
     exited |-> FALSE,
     signalled |-> FALSE,
     errors |-> 0]

EmptyOutput == [stdout |-> <<>>, stderr |-> <<>>]

(* the child object execa returns when the OS refuses the launch: the call  *)
(* does not throw; the object writes nothing, never emits 'exit' and emits  *)
(* 'error' on a later tick                                                  *)
FailedChild(stdioConfig) ==
    [NewChild(stdioConfig, EmptyOutput) EXCEPT !.launched = FALSE]

(* the events emitted for a record: the data of its stdout/stderr events,   *)
(* and what the registry held under its name when 'spawn' was emitted       *)
NewEmitted(seen) == [stdout |-> <<>>, stderr |-> <<>>, spawn |-> seen]

(* a spawn that emits 'spawn' before it stores the record *)
emitSpawn_BeforeSet(before, after, processName) == Get(before, processName)

(* this.emit('spawn', spawnedProcess) is the last statement of spawn, after *)
(* this.processes.set: a subscriber looks the name up in the registry as    *)
(* the set left it (`after`), not as the call found it (`before`)           *)
emitSpawn(before, after, processName) == Get(after, processName)

(* the fields of the supervisor and the objects that spawn creates *)
State ==
    [processes |-> processes, processCounter |-> processCounter,
     outputBuffers |-> outputBuffers, recs |-> recs, bufs |-> bufs,
     child |-> child, listeners |-> listeners, emitted |-> emitted]

Becomes(s) ==
    /\ processes' = s.processes
    /\ processCounter' = s.processCounter
    /\ outputBuffers' = s.outputBuffers
    /\ recs' = s.recs
    /\ bufs' = s.bufs
    /\ child' = s.child
    /\ listeners' = s.listeners
    /\ emitted' = s.emitted

(* the body of spawn, from the state s: it has no await, so it runs to its  *)
(* end when it is called                                                    *)
spawned(s, command, logPrefix, streamLogs, captureOutput, script) ==
    LET processName == ProcessName(s.processCounter, command, logPrefix)
        pid == Len(s.recs) + 1
        stdioConfig == IF streamLogs THEN "inherit" ELSE "pipe"
        registry == Set(s.processes, processName, pid)
    IN  [processes |-> registry,
         processCounter |-> IF logPrefix[1] # "" THEN s.processCounter
                            ELSE s.processCounter + 1,
         outputBuffers |-> Set(s.outputBuffers, processName, pid),
         recs |-> Append(s.recs, NewRecord(processName, stdioConfig, captureOutput)),
         bufs |-> Append(s.bufs, EmptyOutput),
         child |-> Append(s.child, IF Launches(command)
                                   THEN NewChild(stdioConfig, script)
                                   ELSE FailedChild(stdioConfig)),
         listeners |-> Append(s.listeners, <<>>),
         emitted |-> Append(s.emitted,
                            NewEmitted(emitSpawn(s.processes, registry, processName)))]

spawn(command, logPrefix, streamLogs, captureOutput, script) ==
    /\ Len(recs) < MaxProcs
    /\ Becomes(spawned(State, command, logPrefix, streamLogs, captureOutput, script))
    /\ UNCHANGED <<waiters, waitAlls, handler, calls, uncaught,
                   elsewhere>>

(***************************************************************************)
(* spawnMultiple(tasks): tasks.map calls spawn for every task, in order,   *)
(* before the first await gives control back; the map returned is built    *)
(* from the pairs (task.name, record) in task order.  A task is            *)
(* [name, command, options, script]: options.logPrefix is Absent or a      *)
(* label, and script is what the task's command writes.                    *)
(***************************************************************************)
Absent == <<"absent", -1>>

(* { logPrefix: task.name, ...task.options } *)
TaskLogPrefix(task) ==
    IF task.options.logPrefix = Absent THEN task.name ELSE task.options.logPrefix

RECURSIVE spawnEach(_, _)
spawnEach(s, tasks) ==
    IF tasks = <<>> THEN s
    ELSE spawnEach(spawned(s, Head(tasks).command, TaskLogPrefix(Head(tasks)),
                           Head(tasks).options.streamLogs,
                           Head(tasks).options.captureOutput,
                           Head(tasks).script),
                   Tail(tasks))

(* results.forEach(({ name, process }) => processMap.set(name, process)) *)
RECURSIVE processMap(_, _, _)
processMap(map, tasks, pid) ==
    IF tasks = <<>> THEN map
    ELSE processMap(Set(map, Head(tasks).name, pid), Tail(tasks), pid + 1)

spawnMultiple(tasks) ==
    /\ Len(recs) + Len(tasks) <= MaxProcs
    /\ Becomes(spawnEach(State, tasks))
    /\ UNCHANGED <<waiters, waitAlls, handler, uncaught,
                   elsewhere>>

(* what the caller of spawnMultiple(tasks) gets back *)
SpawnMultipleCall(tasks) ==
    [op |-> "spawnMultiple", arg |-> tasks,
     value |-> processMap(<<>>, tasks, Len(recs) + 1),
     pid |-> Undefined, targets |-> {}, running |-> {}, alive |-> {}]

(***************************************************************************)
(* killProcess(processName, signal) and killAll(signal).  The signal       *)
(* reaches a child that the OS launched and whose exit Node has not yet    *)
(* reported; process.kill on any other child delivers nothing and returns  *)
(* false, which the supervisor does not look at.                           *)
(***************************************************************************)
Alive(p) == child[p].launched /\ ~child[p].exited

(* spawnedProcess.process.kill(signal), for each of the children `pids` *)
kill(pids) ==
    [p \in 1..Len(child) |->
        IF p \in pids /\ Alive(p)
        THEN [child[p] EXCEPT !.signalled = TRUE]
        ELSE child[p]]

(* a killProcess that does not look at isRunning *)
killTargets_IgnoreRunning(processName) ==
    LET spawnedProcess == getProcess(processName)
    IN  IF spawnedProcess = Undefined THEN {} ELSE {spawnedProcess}

(* the children on which killProcess calls process.kill: none when the     *)
(* name is unknown or the record is not running                            *)
killTargets(processName) ==
    LET spawnedProcess == getProcess(processName)
    IN  IF spawnedProcess = Undefined \/ ~recs[spawnedProcess].isRunning
        THEN {}
        ELSE {spawnedProcess}

(* a kill that also marks the records it signals as stopped *)
killed_MarksStopped(s, pids) ==
    [s EXCEPT !.child = kill(pids),
              !.recs = [p \in 1..Len(s.recs) |->
                           IF p \in pids
                           THEN [s.recs[p] EXCEPT !.isRunning = FALSE]
                           ELSE s.recs[p]]]

(* the state after process.kill(signal) on the children `pids`: the        *)
(* children are signalled, nothing of the supervisor is written            *)
killed(s, pids) == [s EXCEPT !.child = kill(pids)]

killProcess(processName) ==
    /\ Becomes(killed(State, killTargets(processName)))
    /\ UNCHANGED <<waiters, waitAlls, handler, uncaught, elsewhere>>

(* the children on which killAll calls process.kill *)
killAllTargets ==
    {processes[n] : n \in {m \in DOMAIN processes : recs[processes[m]].isRunning}}

killAll ==
    /\ Becomes(killed(State, killAllTargets))
    /\ UNCHANGED <<waiters, waitAlls, handler, uncaught, elsewhere>>

(* what the caller of killProcess(processName) gets back (value), with the *)
(* children on which process.kill was called (targets) and, to judge the   *)
(* call, the record found under the name and the records running and the   *)
(* children alive when it was made                                         *)
KillProcessCall(processName) ==
    [op |-> "killProcess", arg |-> processName,
     value |-> (killTargets(processName) # {}),
     pid |-> getProcess(processName),
     targets |-> killTargets(processName),
     running |-> {p \in Pids : recs[p].isRunning},
     alive |-> {p \in Pids : Alive(p)}]

KillAllCall ==
    [op |-> "killAll", arg |-> <<>>, value |-> Undefined,
     pid |-> Undefined,
     targets |-> killAllTargets,
     running |-> {p \in Pids : recs[p].isRunning},
     alive |-> {p \in Pids : Alive(p)}]

(***************************************************************************)
(* waitForProcess(processName): rejects for an unknown name, resolves at   *)
(* once with the stored exitCode when the record is not running, else adds *)
(* an 'exit' listener to the child process.                                *)
(***************************************************************************)
(* a wait that adds its listener without looking at isRunning *)
NewWaiter_AlwaysListen(processName, viaAll) ==
    LET spawnedProcess == getProcess(processName)
    IN  IF spawnedProcess = Undefined
        THEN [name |-> processName, pid |-> Undefined, status |-> "rejected",
              result |-> Null, calls |-> 0, viaAll |-> viaAll]
        ELSE [name |-> processName, pid |-> spawnedProcess, status |-> "pending",
              result |-> Null, calls |-> 0, viaAll |-> viaAll]

(* a wait that answers null for an unknown name instead of throwing *)
NewWaiter_NullForUnknown(processName, viaAll) ==
    LET spawnedProcess == getProcess(processName)
    IN  IF spawnedProcess = Undefined
        THEN [name |-> processName, pid |-> Undefined, status |-> "resolved",
              result |-> Null, calls |-> 1, viaAll |-> viaAll]
        ELSE IF ~recs[spawnedProcess].isRunning
        THEN [name |-> processName, pid |-> spawnedProcess, status |-> "resolved",
              result |-> recs[spawnedProcess].exitCode, calls |-> 1,
              viaAll |-> viaAll]
        ELSE [name |-> processName, pid |-> spawnedProcess, status |-> "pending",
              result |-> Null, calls |-> 0, viaAll |-> viaAll]

NewWaiter(processName, viaAll) ==
    LET spawnedProcess == getProcess(processName)
    IN  IF spawnedProcess = Undefined
        THEN [name |-> processName, pid |-> Undefined, status |-> "rejected",
              result |-> Null, calls |-> 0, viaAll |-> viaAll]
        ELSE IF ~recs[spawnedProcess].isRunning
        THEN [name |-> processName, pid |-> spawnedProcess, status |-> "resolved",
              result |-> recs[spawnedProcess].exitCode, calls |-> 1,
              viaAll |-> viaAll]
        ELSE [name |-> processName, pid |-> spawnedProcess, status |-> "pending",
              result |-> Null, calls |-> 0, viaAll |-> viaAll]

DirectWaits == {i \in 1..Len(waiters) : ~waiters[i].viaAll}

waitForProcess(processName) ==
    LET w == NewWaiter(processName, FALSE)
        id == Len(waiters) + 1
    IN  /\ Cardinality(DirectWaits) < MaxWaits
        /\ waiters' = Append(waiters, w)
        /\ listeners' = IF w.status = "pending"
                        THEN [listeners EXCEPT ![w.pid] = Append(@, id)]
                        ELSE listeners
        /\ UNCHANGED <<processes, processCounter, outputBuffers, recs, bufs,
                       child, waitAlls, emitted, handler, calls, uncaught,
                       elsewhere>>

(***************************************************************************)
(* waitForAll(): one waitForProcess per running record, the stored         *)
(* exitCode for the others; the result is complete when every inner        *)
(* promise has resolved.                                                   *)
(***************************************************************************)
RunningNames == {n \in DOMAIN processes : recs[processes[n]].isRunning}

RECURSIVE InnerWaiters(_, _)
InnerWaiters(ws, names) ==
    IF names = {} THEN ws
    ELSE LET n == CHOOSE m \in names :
                      \A o \in names : processes[m] <= processes[o]
         IN  InnerWaiters(Append(ws, NewWaiter(n, TRUE)), names \ {n})

waitForAll ==
    LET ws == InnerWaiters(waiters, RunningNames)
        inner == (Len(waiters) + 1)..Len(ws)
    IN  /\ Len(waitAlls) < MaxWaitAlls
        /\ waiters' = ws
        /\ listeners' = [p \in Pids |->
                            listeners[p] \o
                            SelectSeq([i \in 1..Len(ws) |-> i],
                                      LAMBDA i : i \in inner /\ ws[i].pid = p)]
        /\ waitAlls' = Append(waitAlls,
                              [names |-> DOMAIN processes,
                               results |-> [n \in (DOMAIN processes) \ RunningNames
                                               |-> recs[processes[n]].exitCode],
                               inner |-> inner,
                               done |-> FALSE])
        /\ UNCHANGED <<processes, processCounter, outputBuffers, recs, bufs,
                       child, emitted, handler, calls, uncaught,
                       elsewhere>>

(* the continuation after `await Promise.all(promises)` *)
waitForAllResume(k) ==
    LET call == waitAlls[k]
    IN  /\ handler.kind = "idle"
        /\ ~call.done
        /\ \A i \in call.inner : waiters[i].status = "resolved"
        /\ waitAlls' = [waitAlls EXCEPT ![k] =
               [call EXCEPT
                   !.results = [n \in (DOMAIN call.results)
                                       \cup {waiters[i].name : i \in call.inner} |->
                                   IF \E i \in call.inner : waiters[i].name = n
                                   THEN waiters[CHOOSE i \in call.inner :
                                                    waiters[i].name = n].result
                                   ELSE call.results[n]],
                   !.done = TRUE]]
        /\ UNCHANGED <<processes, processCounter, outputBuffers, recs, bufs,
                       child, listeners, waiters, emitted, handler, calls, uncaught,
                       elsewhere>>

(***************************************************************************)
(* clearHistory()                                                          *)
(***************************************************************************)
clearHistory ==
    /\ processes' = <<>>
    /\ outputBuffers' = <<>>
    /\ processCounter' = 0
    /\ UNCHANGED <<recs, bufs, child, listeners, waiters, waitAlls, emitted,
                   handler, calls, uncaught,
                   elsewhere>>

(***************************************************************************)
(* The 'data' listener of child.stdout / child.stderr (stdio 'pipe' only): *)
(* the chunk is decoded and appended to the buffer found under the         *)
(* record's name, and processBufferedOutput pushes and emits the complete  *)
(* lines.  With no buffer under that name the chunk is dropped.            *)
(***************************************************************************)
(* a reassembly that empties the fragment of the other stream too *)
processBufferedOutput_BothStreams(p, stream, buffer, currentBuffer) ==
    LET lines == CompleteLines(currentBuffer)
    IN  /\ bufs' = [bufs EXCEPT ![buffer] =
                        [s \in Streams |-> IF s = stream
                                           THEN Remainder(currentBuffer)
                                           ELSE <<>>]]
        /\ recs' = IF recs[p].captureOutput
                   THEN [recs EXCEPT ![p][stream] = @ \o lines]
                   ELSE recs
        /\ emitted' = [emitted EXCEPT ![p][stream] = @ \o lines]

processBufferedOutput(p, stream, buffer, currentBuffer) ==
    LET lines == CompleteLines(currentBuffer)
    IN  /\ bufs' = [bufs EXCEPT ![buffer][stream] = Remainder(currentBuffer)]
        /\ recs' = IF recs[p].captureOutput
                   THEN [recs EXCEPT ![p][stream] = @ \o lines]
                   ELSE recs
        /\ emitted' = [emitted EXCEPT ![p][stream] = @ \o lines]

onData(p, stream) ==
    LET output == toString(Head(child[p][stream]))
        buffer == Get(outputBuffers, recs[p].name)
    IN  /\ handler.kind = "idle"
        /\ recs[p].stdioConfig = "pipe"
        /\ child[p][stream] # <<>>
        /\ child' = [child EXCEPT ![p][stream] = Tail(@)]
        /\ IF buffer # Undefined
           THEN processBufferedOutput(p, stream, buffer,
                                      bufs[buffer][stream] \o output)
           ELSE UNCHANGED <<bufs, recs, emitted>>
        /\ UNCHANGED <<processes, processCounter, outputBuffers, listeners,
                       waiters, waitAlls, handler, calls, uncaught,
                       elsewhere>>

(***************************************************************************)
(* The 'exit' listener of the child process.  onExitRun runs it from stage *)
(* `from` (1: the stdout flush, 2: the stderr flush, 3: the state update)  *)
(* up to its next emit, where subscribers run:                             *)
(*   pc = "stdout" / "stderr": inside this.emit of a flushed fragment,     *)
(*   pc = "exit": inside this.emit('exit', ...).                           *)
(* `buffer` is the buffer object the listener fetched when it started and  *)
(* `snap` the child's 'exit' listeners that the running emit will call.    *)
(***************************************************************************)
(* a listener that emits 'exit' and updates the record only afterwards *)
Exited_AfterEmit(rec, code) == rec

(* spawnedProcess.isRunning = false; .exitCode = code; .endTime = new Date() *)
Exited(rec, code) ==
    [rec EXCEPT !.isRunning = FALSE, !.exitCode = code, !.endTime = Date(rec)]

onExitRun(p, code, snap, buffer, from) ==
    LET name == recs[p].name
        flush(stream) == buffer # Undefined /\ bufs[buffer][stream] # <<>>
        at(pc) == [kind |-> "exit", pid |-> p, code |-> code, pc |-> pc,
                   snap |-> snap, buf |-> buffer]
    IN  IF from <= 1 /\ flush("stdout")
        THEN /\ recs' = IF recs[p].captureOutput
                        THEN [recs EXCEPT ![p].stdout = Append(@, bufs[buffer].stdout)]
                        ELSE recs
             /\ emitted' = [emitted EXCEPT ![p].stdout = Append(@, bufs[buffer].stdout)]
             /\ handler' = at("stdout")
             /\ UNCHANGED outputBuffers
        ELSE IF from <= 2 /\ flush("stderr")
        THEN /\ recs' = IF recs[p].captureOutput
                        THEN [recs EXCEPT ![p].stderr = Append(@, bufs[buffer].stderr)]
                        ELSE recs
             /\ emitted' = [emitted EXCEPT ![p].stderr = Append(@, bufs[buffer].stderr)]
             /\ handler' = at("stderr")
             /\ UNCHANGED outputBuffers
        ELSE /\ outputBuffers' = IF buffer # Undefined
                                 THEN Delete(outputBuffers, name)
                                 ELSE outputBuffers
             /\ recs' = [recs EXCEPT ![p] = Exited(@, code)]
             /\ handler' = at("exit")
             /\ UNCHANGED emitted

(* the child process emits 'exit': the supervisor's listener starts *)
onExit(p, code) ==
    /\ handler.kind = "idle"
    /\ child[p].launched
    /\ ~child[p].exited
    /\ child' = [child EXCEPT ![p].exited = TRUE, ![p].signalled = FALSE]
    /\ onExitRun(p, code, listeners[p],
                 IF recs[p].stdioConfig = "pipe"
                 THEN Get(outputBuffers, recs[p].name) ELSE Undefined,
                 1)
    /\ UNCHANGED <<processes, processCounter, bufs, listeners, waiters, waitAlls,
                   calls, uncaught,
                   elsewhere>>

(* a subscriber of a flushed fragment returns: the listener goes on *)
onExitResume ==
    /\ handler.kind = "exit"
    /\ handler.pc \in {"stdout", "stderr"}
    /\ onExitRun(handler.pid, handler.code, handler.snap, handler.buf,
                 IF handler.pc = "stdout" THEN 2 ELSE 3)
    /\ UNCHANGED <<processes, processCounter, bufs, child, listeners, waiters,
                   waitAlls, calls, uncaught,
                   elsewhere>>

(* an emit that calls only the first of the listeners added by waits *)
onExitWaiters_FirstOnly ==
    /\ handler.kind = "exit"
    /\ handler.pc = "exit"
    /\ waiters' = [i \in 1..Len(waiters) |->
                      IF handler.snap # <<>> /\ handler.snap[1] = i
                      THEN [waiters[i] EXCEPT !.status = "resolved",
                                              !.result = handler.code,
                                              !.calls = @ + 1]
                      ELSE waiters[i]]
    /\ handler' = Idle
    /\ UNCHANGED <<processes, processCounter, outputBuffers, recs, bufs, child,
                   listeners, waitAlls, emitted, calls, uncaught,
                   elsewhere>>

(* the subscribers of 'exit' return; the child's emit calls the listeners  *)
(* that waitForProcess had added before the emit started                    *)
onExitWaiters ==
    /\ handler.kind = "exit"
    /\ handler.pc = "exit"
    /\ waiters' = [i \in 1..Len(waiters) |->
                      IF \E k \in 1..Len(handler.snap) : handler.snap[k] = i
                      THEN [waiters[i] EXCEPT
                               !.status = "resolved",
                               !.result = IF waiters[i].status = "pending"
                                          THEN handler.code ELSE @,
                               !.calls = @ + 1]
                      ELSE waiters[i]]
    /\ handler' = Idle
    /\ UNCHANGED <<processes, processCounter, outputBuffers, recs, bufs, child,
                   listeners, waitAlls, emitted, calls, uncaught,
                   elsewhere>>

(***************************************************************************)
(* The 'error' listener of the child process.                              *)
(***************************************************************************)
RECURSIVE Sum(_)
Sum(ns) == IF ns = <<>> THEN 0 ELSE Head(ns) + Sum(Tail(ns))
ErrorCount ==
    Sum([p \in 1..Len(child) |-> IF child[p].launched THEN child[p].errors ELSE 0])

(* this.emit('error', { processName: name, error }): an EventEmitter with   *)
(* no listener for 'error' throws instead of emitting; the throw leaves the *)
(* child's listener, after its assignments, as an uncaught exception        *)
emitError(subscribers, thrown) ==
    IF subscribers = 0 THEN thrown + 1 ELSE thrown

(* an 'error' listener that stops the record and sets no endTime *)
Errored_NoEndTime(rec) == [rec EXCEPT !.isRunning = FALSE]

(* spawnedProcess.isRunning = false; .endTime = new Date() *)
Errored(rec) == [rec EXCEPT !.isRunning = FALSE, !.endTime = Date(rec)]

(* an 'error' listener that marks every record as stopped *)
onError_EveryRecord(p) ==
    /\ handler.kind = "idle"
    /\ IF child[p].launched THEN ErrorCount < MaxErrors ELSE child[p].errors = 0
    /\ child' = [child EXCEPT ![p].errors = @ + 1]
    /\ uncaught' = emitError(errorListeners, uncaught)
    /\ recs' = [q \in Pids |-> Errored(recs[q])]
    /\ UNCHANGED <<processes, processCounter, outputBuffers, bufs, listeners,
                   waiters, waitAlls, emitted, handler, calls,
                   elsewhere>>

(* a launched child may emit 'error' at any time (a stream error, a failed  *)
(* kill); a child that the OS did not launch emits it once                  *)
onError(p) ==
    /\ handler.kind = "idle"
    /\ IF child[p].launched THEN ErrorCount < MaxErrors ELSE child[p].errors = 0
    /\ child' = [child EXCEPT ![p].errors = @ + 1]
    /\ uncaught' = emitError(errorListeners, uncaught)
    /\ recs' = [recs EXCEPT ![p] = Errored(@)]
    /\ UNCHANGED <<processes, processCounter, outputBuffers, bufs, listeners,
                   waiters, waitAlls, emitted, handler, calls,
                   elsewhere>>

(***************************************************************************)
(* on('error', handler) / off('error', handler), inherited from            *)
(* EventEmitter: only the number of subscribers of 'error' matters here.   *)
(***************************************************************************)
supervisor == <<processes, processCounter, outputBuffers, recs, bufs, child,
                listeners, waiters, waitAlls, emitted, handler, calls, uncaught>>
caches == <<filePaths, files, locatorData, loadedFiles, locatorMapData, got,
            reads>>

on ==
    /\ errorListeners < MaxSubs
    /\ errorListeners' = errorListeners + 1
    /\ UNCHANGED <<supervisor, snapshots, caches, cli>>

off ==
    /\ errorListeners > 0
    /\ errorListeners' = errorListeners - 1
    /\ UNCHANGED <<supervisor, snapshots, caches, cli>>

(***************************************************************************)
(* The getters.  A map handed to a caller is either a new Map object with  *)
(* its own entries or (alias) the registry's own Map object; an entry      *)
(* leads to the record object itself.  The caller may then set and delete  *)
(* entries of the map it holds.                                            *)
(***************************************************************************)
(* a getter that hands out the registry's own map *)
newMap_SameObject(map) ==
    [of |-> "map", alias |-> TRUE, entries |-> map, edits |-> 0]

(* new Map(this.processes) / new Map() filled by forEach *)
newMap(map) == [of |-> "map", alias |-> FALSE, entries |-> map, edits |-> 0]

(* what a caller reads in the map it holds *)
Entries(snapshot) == IF snapshot.alias THEN processes ELSE snapshot.entries

handOut(snapshot) ==
    /\ Len(snapshots) < MaxSnapshots
    /\ snapshots' = Append(snapshots, snapshot)
    /\ UNCHANGED <<supervisor, errorListeners, caches, cli>>

getAllProcesses == handOut(newMap(processes))

getRunningProcesses ==
    handOut(newMap([n \in {m \in DOMAIN processes : recs[processes[m]].isRunning}
                       |-> processes[n]]))

(* getProcess returns the record found under the name and getProcessOutput *)
(* the output object of that record, or undefined (null): kept here as the *)
(* one entry name -> record, or as no entry                                *)
found(of, processName) ==
    [of |-> of, alias |-> FALSE,
     entries |-> [n \in {processName} \cap DOMAIN processes |-> processes[n]],
     edits |-> 0]

getProcessKept(processName) == handOut(found("record", processName))

getProcessOutput(processName) == handOut(found("output", processName))

(* the caller's map.set(name, record) or map.delete(name) on the k-th map  *)
(* handed out: entries is what the map holds afterwards                    *)
edit(k, entries) ==
    /\ snapshots[k].of = "map"
    /\ snapshots[k].edits < MaxEdits
    /\ entries # Entries(snapshots[k])
    /\ IF snapshots[k].alias
       THEN /\ processes' = entries
            /\ snapshots' = [snapshots EXCEPT ![k].edits = @ + 1]
       ELSE /\ processes' = processes
            /\ snapshots' = [snapshots EXCEPT ![k].entries = entries,
                                              ![k].edits = @ + 1]
    /\ UNCHANGED <<processCounter, outputBuffers, recs, bufs, child, listeners,
                   waiters, waitAlls, emitted, handler, calls, uncaught,
                   errorListeners, caches, cli>>

(***************************************************************************)
(* The caches of the locator files.  A value that may be missing           *)
(* (undefined, null) is a sequence of at most one element.                 *)
(*                                                                         *)
(* LocatorMapCache: `data` is what JSON.parse gave for the mapping file,   *)
(* an array of { name, path } or (array = FALSE) some other JSON value.    *)
(***************************************************************************)
MapNames == {"login", "home"}
Paths == {"/login", "/home"}
MissingPath == "/missing"
LocatorMaps == [name : MapNames, path : Paths]
DefaultMap == [name |-> "", path |-> ""]
MapFiles ==
    {[array |-> TRUE, items |-> a] :
         a \in UNION {[1..n -> LocatorMaps] : n \in 0..MaxMaps}}
    \cup {[array |-> FALSE, items |-> <<>>]}

(* Array.prototype.find: the first element that matches, or undefined *)
find(items, key) ==
    LET hits == {i \in 1..Len(items) : items[i].path = key}
    IN  IF hits = {} THEN <<>>
        ELSE <<items[CHOOSE i \in hits : \A j \in hits : i <= j]>>

(* LocatorMapCache.get: this.data.find throws when data is not an array,   *)
(* and the catch returns the default mapping                               *)
LocatorMapCacheGetValue(key) ==
    IF locatorMapData.array
    THEN find(locatorMapData.items, key)
    ELSE <<DefaultMap>>

LocatorMapCacheGet(key) ==
    /\ Len(got) < MaxGot
    /\ got' = Append(got, [op |-> "LocatorMapCache.get", key |-> key,
                           value |-> LocatorMapCacheGetValue(key), edits |-> 0])
    /\ UNCHANGED <<supervisor, errorListeners, snapshots, filePaths, files,
                   locatorData, loadedFiles, locatorMapData, reads, cli>>

(***************************************************************************)
(* LocatorCache: filePaths maps a key to its file, files is the disk (a    *)
(* file that JSON.parse accepts, with the collection it holds, or one that *)
(* makes readFileSync or JSON.parse throw), data and loadedFiles are the   *)
(* cache.  The object handed to a caller is either a new object with its   *)
(* own entries or (alias) the cached object itself.                        *)
(***************************************************************************)
Keys == MapNames
NoFileKey == "nofile"
LocatorNames == {"button", "field"}
Selector == "#a"
Collections == UNION {[D -> {Selector}] : D \in SUBSET LocatorNames}
FileContents ==
    {[ok |-> TRUE, json |-> c] : c \in Collections}
    \cup {[ok |-> FALSE, json |-> <<>>]}
FileOf(key) == <<"src/locators", key>>

(* a get that hands out the cached object *)
shallowCopy_SameObject(collection) == [alias |-> TRUE, entries |-> collection]

(* { ...this.data[key] } *)
shallowCopy(collection) == [alias |-> FALSE, entries |-> collection]

(* the entries a caller reads in the object it was handed for `key` *)
Held(key, object) == IF object.alias THEN locatorData[key] ELSE object.entries

LocatorCacheGet(key) ==
    LET load == key \notin loadedFiles /\ key \in DOMAIN filePaths
        file == files[filePaths[key]]
        data == IF load /\ file.ok
                THEN Set(locatorData, key, file.json)
                ELSE locatorData
        value == IF load /\ ~file.ok THEN <<>>
                 ELSE IF key \in DOMAIN data THEN <<shallowCopy(data[key])>>
                 ELSE <<>>
    IN  /\ Len(got) < MaxGot
        /\ locatorData' = data
        /\ loadedFiles' = IF load /\ file.ok THEN loadedFiles \cup {key}
                          ELSE loadedFiles
        /\ got' = Append(got, [op |-> "LocatorCache.get", key |-> key,
                               value |-> value, edits |-> 0])
        /\ reads' = IF load THEN Append(reads, filePaths[key]) ELSE reads
        /\ UNCHANGED <<supervisor, errorListeners, snapshots, filePaths, files,
                       locatorMapData, cli>>

(* Object.keys(this.filePaths): the keys in the order of the object *)
RECURSIVE ObjectKeys(_)
ObjectKeys(keys) ==
    IF keys = {} THEN <<>>
    ELSE LET key == CHOOSE k \in keys : TRUE
         IN  <<key>> \o ObjectKeys(keys \ {key})

(* the lazy load of get, on the cache c: the file of the key is read, and   *)
(* the key is loaded when the file could be read and parsed                 *)
lazyLoad(c, key) ==
    IF key \notin c.loadedFiles /\ key \in DOMAIN filePaths
    THEN LET file == files[filePaths[key]]
         IN  [data |-> IF file.ok THEN Set(c.data, key, file.json) ELSE c.data,
              loadedFiles |-> IF file.ok THEN c.loadedFiles \cup {key}
                              ELSE c.loadedFiles,
              reads |-> Append(c.reads, filePaths[key])]
    ELSE c

(* forEach((key) => { if (!this.loadedFiles.has(key)) this.get(key) }) *)
RECURSIVE forEachKey(_, _)
forEachKey(keys, c) ==
    IF keys = <<>> THEN c
    ELSE forEachKey(Tail(keys),
                    IF Head(keys) \notin c.loadedFiles
                    THEN lazyLoad(c, Head(keys))
                    ELSE c)

preloadAll ==
    LET c == forEachKey(ObjectKeys(DOMAIN filePaths),
                        [data |-> locatorData, loadedFiles |-> loadedFiles,
                         reads |-> reads])
    IN  /\ Len(got) < MaxGot
        /\ locatorData' = c.data
        /\ loadedFiles' = c.loadedFiles
        /\ reads' = c.reads
        /\ got' = Append(got, [op |-> "LocatorCache.preloadAll", key |-> "",
                               value |-> <<>>, edits |-> 0])
        /\ UNCHANGED <<supervisor, errorListeners, snapshots, filePaths, files,
                       locatorMapData, cli>>

getAvailableKeys == DOMAIN filePaths

LocatorCacheGetAvailableKeys ==
    /\ Len(got) < MaxGot
    /\ got' = Append(got, [op |-> "LocatorCache.getAvailableKeys", key |-> "",
                           value |-> <<getAvailableKeys>>, edits |-> 0])
    /\ UNCHANGED <<supervisor, errorListeners, snapshots, filePaths, files,
                   locatorData, loadedFiles, locatorMapData, reads, cli>>

(* an isLoaded that answers whether the key has a file *)
isLoaded_HasFile(key) == key \in DOMAIN filePaths

(* return this.loadedFiles.has(key) *)
isLoaded(key) == key \in loadedFiles

LocatorCacheIsLoaded(key) ==
    /\ Len(got) < MaxGot
    /\ got' = Append(got, [op |-> "LocatorCache.isLoaded", key |-> key,
                           value |-> <<isLoaded(key)>>, edits |-> 0])
    /\ UNCHANGED <<supervisor, errorListeners, snapshots, filePaths, files,
                   locatorData, loadedFiles, locatorMapData, reads, cli>>

(* the caller adds, replaces or removes an entry of the k-th object it got: *)
(* entries is what the object holds afterwards                              *)
modify(k, entries) ==
    LET g == got[k]
    IN  /\ g.op = "LocatorCache.get"
        /\ g.value # <<>>
        /\ g.edits < MaxEdits
        /\ entries # Held(g.key, g.value[1])
        /\ IF g.value[1].alias
           THEN /\ locatorData' = [locatorData EXCEPT ![g.key] = entries]
                /\ got' = [got EXCEPT ![k].edits = @ + 1]
           ELSE /\ locatorData' = locatorData
                /\ got' = [got EXCEPT ![k].edits = @ + 1,
                                      ![k].value = <<shallowCopy(entries)>>]
        /\ UNCHANGED <<supervisor, errorListeners, snapshots, filePaths, files,
                       loadedFiles, locatorMapData, reads, cli>>

(***************************************************************************)
(* The CLI program (index.ts): startCli parses the arguments,              *)
(* setEnvironmentVariables exports them, bootstrap spawns the test runner  *)
(* under the name 'cucumber-test', waits for it and exits with its code.   *)
(* The runner inherits the environment; its BeforeAll hook launches the    *)
(* browser.  A missing value (an option not given, a variable not set,     *)
(* no exit yet) is a sequence of length 0.                                 *)
(***************************************************************************)
HEADLESS_CHOICES == {"true", "false"}
DEFAULT_HEADLESS == "true"
BROWSER_CHOICES == {"chromium", "firefox", "webkit"}
DEFAULT_BROWSER == "chromium"
NotGiven == "-"
(* the command lines: --headless and --browser given or not, with a value  *)
(* of the choices or another one                                           *)
Argvs == [headless : HEADLESS_CHOICES \cup {NotGiven, "yes"},
          browser : BROWSER_CHOICES \cup {NotGiven, "opera"}]
CucumberTest == <<"cucumber-test", 0>>

(* an Option with choices and a default: the value given, the default when *)
(* none is given, and no value when commander rejects the one given        *)
option(given, choices, default) ==
    IF given = NotGiven THEN <<default>>
    ELSE IF given \in choices THEN <<given>>
    ELSE <<>>

(* startCli and setEnvironmentVariables: commander ends the program with   *)
(* status 1 on a value outside the choices                                 *)
startCli ==
    LET headless == option(cli.argv.headless, HEADLESS_CHOICES, DEFAULT_HEADLESS)
        browser == option(cli.argv.browser, BROWSER_CHOICES, DEFAULT_BROWSER)
    IN  /\ cli.pc = "start"
        /\ cli' = IF headless = <<>> \/ browser = <<>>
                  THEN [cli EXCEPT !.pc = "exited", !.status = <<1>>]
                  ELSE [cli EXCEPT
                           !.pc = "parsed",
                           !.opts = <<[headless |-> headless[1],
                                       browser |-> browser[1]]>>,
                           !.env = <<[HEADLESS |-> headless[1],
                                      BROWSER |-> browser[1]]>>]
        /\ UNCHANGED <<supervisor, errorListeners, snapshots, caches>>

(* await spawnTask('npx', ['cucumber-js', ...], { streamLogs: true,        *)
(* logPrefix: 'cucumber-test', captureOutput: true }); npx can be launched *)
(* (command "cmd") or not                                                  *)
bootstrapSpawn(command) ==
    /\ cli.pc = "parsed"
    /\ recs = <<>>
    /\ spawn(command, CucumberTest, TRUE, TRUE, ScriptFragment)

(* const exitCode = await waitForTask('cucumber-test') *)
bootstrapWait ==
    /\ cli.pc = "parsed"
    /\ Len(recs) = 1
    /\ waiters = <<>>
    /\ waitForProcess(CucumberTest)

(* the runner's BeforeAll hook: browser.launch({ headless:                 *)
(* process.env.HEADLESS === 'false' }) for process.env.BROWSER             *)
BeforeAll ==
    /\ cli.pc = "parsed"
    /\ waiters # <<>>
    /\ Alive(1)
    /\ cli.launch = <<>>
    /\ cli' = [cli EXCEPT !.launch = <<[browser |-> cli.env[1].BROWSER,
                                       headless |-> (cli.env[1].HEADLESS = "false")]>>]
    /\ UNCHANGED <<supervisor, errorListeners, snapshots, caches>>

(* exitCode || 0 *)
ExitStatus(exitCode) == IF exitCode = Null \/ exitCode = 0 THEN 0 ELSE exitCode

(* process.exit(exitCode || 0), once the wait has resolved *)
bootstrapExit ==
    /\ cli.pc = "parsed"
    /\ handler.kind = "idle"
    /\ uncaught = 0
    /\ waiters # <<>>
    /\ waiters[1].status = "resolved"
    /\ cli' = [cli EXCEPT !.pc = "exited",
                          !.status = <<ExitStatus(waiters[1].result)>>]
    /\ UNCHANGED <<supervisor, errorListeners, snapshots, caches>>

(* process.on('uncaughtException', ...): process.exit(1) *)
uncaughtException ==
    /\ cli.pc = "parsed"
    /\ uncaught > 0
    /\ cli' = [cli EXCEPT !.pc = "exited", !.status = <<1>>]
    /\ UNCHANGED <<supervisor, errorListeners, snapshots, caches>>

(***************************************************************************)
(* The specification: the callers' operations may run at any time, also    *)
(* from a subscriber while the exit listener stands at an emit; the        *)
(* child's events are delivered one at a time, when no listener is running.*)
(***************************************************************************)
UnknownName == <<"ghost", 0>>
NameInputs == {LabelA, <<"cmd", 1>>, UnknownName}

SpawnFrom(labels, streamLogs, captureOutput, scripts) ==
    \E c \in Commands, l \in labels, sl \in streamLogs, co \in captureOutput,
       sc \in scripts : spawn(c, l, sl, co, sc)
Spawn == SpawnFrom(Labels, BOOLEAN, BOOLEAN, Scripts)
KillProcess == \E n \in NameInputs : killProcess(n) /\ UNCHANGED calls
WaitForProcess == \E n \in NameInputs : waitForProcess(n)
WaitForAll == waitForAll
WaitForAllResume == \E k \in 1..Len(waitAlls) : waitForAllResume(k)
ClearHistory == clearHistory
OnData == \E p \in Pids, s \in Streams : onData(p, s)
OnExit == \E p \in Pids, code \in ExitCodes \cup {Null} :
              /\ (code = Null <=> child[p].signalled)
              /\ onExit(p, code)
OnExitResume == onExitResume
OnExitWaiters == onExitWaiters
OnError == \E p \in Pids : onError(p)

Next ==
    \/ Spawn
    \/ KillProcess
    \/ WaitForProcess
    \/ WaitForAll
    \/ WaitForAllResume
    \/ ClearHistory
    \/ OnData
    \/ OnExit
    \/ OnExitResume
    \/ OnExitWaiters
    \/ OnError

Spec == Init /\ [][Next]_vars

(***************************************************************************)
(* The waiting side: piped children that write one unterminated chunk, so  *)
(* that the exit listener has a fragment to flush, and every operation and *)
(* event that bears on a wait.                                             *)
(***************************************************************************)
SpawnWait == SpawnFrom(Labels, {FALSE}, {TRUE}, {ScriptFragment})

NextWait ==
    \/ SpawnWait
    \/ KillProcess
    \/ WaitForProcess
    \/ ClearHistory
    \/ OnData
    \/ OnExit
    \/ OnExitResume
    \/ OnExitWaiters
    \/ OnError

SpecWait == Init /\ [][NextWait]_vars

(* The same, with waitForAll as the only wait the callers make. *)
NextWaitAll ==
    \/ SpawnWait
    \/ KillProcess
    \/ WaitForAll
    \/ WaitForAllResume
    \/ ClearHistory
    \/ OnData
    \/ OnExit
    \/ OnExitResume
    \/ OnExitWaiters
    \/ OnError

SpecWaitAll == Init /\ [][NextWaitAll]_vars

(***************************************************************************)
(* The output side: children in both stdio modes, with and without         *)
(* capture, whose chunks and exit are delivered in any order.              *)
(***************************************************************************)
SpawnOut == SpawnFrom(Labels, BOOLEAN, BOOLEAN, {ScriptAB, ScriptHello, ScriptBoth})

NextOut ==
    \/ SpawnOut
    \/ OnData
    \/ OnExit
    \/ OnExitResume
    \/ OnExitWaiters

SpecOut == Init /\ [][NextOut]_vars

(***************************************************************************)
(* The line reassembly alone: one piped, capturing child writes a text of  *)
(* at most MaxChunks * MaxChunkLen bytes, cut into chunks at any byte; all *)
(* the chunks are delivered, then the exit.                                *)
(***************************************************************************)
Chunks == UNION {[1..n -> Bytes] : n \in 1..MaxChunkLen}
ChunkSeqs == UNION {[1..n -> Chunks] : n \in 0..MaxChunks}

(* the bytes are the UTF-8 encoding of a text: each lead byte is followed   *)
(* by its continuation byte, and no continuation byte stands alone          *)
WellFormed(bs) ==
    \A i \in 1..Len(bs) :
        /\ bs[i] = LeadByte => (i < Len(bs) /\ bs[i + 1] = ContByte)
        /\ bs[i] = ContByte => (i > 1 /\ bs[i - 1] = LeadByte)

InitLR ==
    \E chunks \in ChunkSeqs :
        /\ WellFormed(Flatten(chunks))
        /\ processes = (LabelA :> 1)
        /\ processCounter = 0
        /\ outputBuffers = (LabelA :> 1)
        /\ recs = <<NewRecord(LabelA, "pipe", TRUE)>>
        /\ bufs = <<EmptyOutput>>
        /\ child = <<NewChild("pipe", [stdout |-> chunks, stderr |-> <<>>])>>
        /\ listeners = << <<>> >>
        /\ waiters = <<>>
        /\ waitAlls = <<>>
        /\ emitted = <<NewEmitted(1)>>
        /\ handler = Idle
        /\ calls = <<>>
        /\ uncaught = 0
        /\ InitElsewhere

OnExitLast == \E code \in ExitCodes : child[1].stdout = <<>> /\ onExit(1, code)

NextLR ==
    \/ OnData
    \/ OnExitLast
    \/ OnExitResume
    \/ OnExitWaiters

SpecLR == InitLR /\ [][NextLR]_vars

(***************************************************************************)
(* The registry side: spawn and spawnMultiple with commands that the OS    *)
(* launches or refuses, labels that collide, and tasks that pass their own *)
(* logPrefix; the caller of spawnMultiple keeps the map it gets back.      *)
(***************************************************************************)
LabelB == <<"B", 0>>
TaskNames == {LabelA, LabelB}
TaskOptions ==
    {[logPrefix |-> l, streamLogs |-> FALSE, captureOutput |-> TRUE] :
        l \in {Absent, LabelB}}
Tasks ==
    {[name |-> n, command |-> c, options |-> o, script |-> ScriptFragment] :
        n \in TaskNames, c \in Commands \cup {BadCommand}, o \in TaskOptions}
TaskLists == UNION {[1..n -> Tasks] : n \in 1..MaxTasks}

SpawnAny ==
    \E c \in Commands \cup {BadCommand}, l \in Labels :
        spawn(c, l, FALSE, TRUE, ScriptFragment)
SpawnMultiple ==
    \E tasks \in TaskLists :
        /\ Len(calls) < MaxCalls
        /\ spawnMultiple(tasks)
        /\ calls' = Append(calls, SpawnMultipleCall(tasks))

NextSpawn ==
    \/ SpawnAny
    \/ SpawnMultiple
    \/ ClearHistory
    \/ OnData
    \/ OnExit
    \/ OnExitResume
    \/ OnExitWaiters
    \/ OnError

SpecSpawn == Init /\ [][NextSpawn]_vars

(***************************************************************************)
(* Two tasks side by side: spawnMultiple, then the events of either child, *)
(* signals and waits on either name.                                       *)
(***************************************************************************)
KillTask == \E n \in TaskNames : killProcess(n) /\ UNCHANGED calls
WaitForTask == \E n \in TaskNames : waitForProcess(n)

NextTasks ==
    \/ SpawnMultiple
    \/ KillTask
    \/ WaitForTask
    \/ OnData
    \/ OnExit
    \/ OnExitResume
    \/ OnExitWaiters
    \/ OnError

SpecTasks == Init /\ [][NextTasks]_vars

(***************************************************************************)
(* The termination side: children spawned under the labels A and B, which  *)
(* may collide; the callers of killProcess and killAll keep what they get  *)
(* back, and waitForAll reads the exit codes.                              *)
(***************************************************************************)
SpawnAB == SpawnFrom({LabelA, LabelB}, {FALSE}, {TRUE}, {ScriptFragment})
KillProcessKeep ==
    \E n \in TaskNames \cup {UnknownName} :
        /\ Len(calls) < MaxCalls
        /\ killProcess(n)
        /\ calls' = Append(calls, KillProcessCall(n))
KillAllKeep ==
    /\ Len(calls) < MaxCalls
    /\ killAll
    /\ calls' = Append(calls, KillAllCall)

NextKill ==
    \/ SpawnAB
    \/ KillProcessKeep
    \/ KillAllKeep
    \/ WaitForAll
    \/ WaitForAllResume
    \/ OnData
    \/ OnExit
    \/ OnExitResume
    \/ OnExitWaiters
    \/ OnError

SpecKill == Init /\ [][NextKill]_vars

(***************************************************************************)
(* The callers' side: every public operation of the supervisor, the        *)
(* subscribers of 'error' coming and going, and callers that edit the maps *)
(* the getters handed them; children exit and fail without output.         *)
(***************************************************************************)
SpawnQuiet == SpawnFrom({LabelA, LabelB}, {TRUE}, {FALSE}, {ScriptFragment})
On == on
Off == off
GetProcess == \E n \in TaskNames \cup {UnknownName} : getProcessKept(n)
GetAllProcesses == getAllProcesses
GetRunningProcesses == getRunningProcesses
GetProcessOutput == \E n \in TaskNames \cup {UnknownName} : getProcessOutput(n)
Edit ==
    \E k \in 1..Len(snapshots) :
        \/ \E n \in TaskNames, p \in Pids :
               edit(k, Set(Entries(snapshots[k]), n, p))
        \/ \E n \in TaskNames : edit(k, Delete(Entries(snapshots[k]), n))

(* at most MaxOps calls of the callers are in progress or kept at a time *)
Budget == Len(calls) + Len(snapshots) + Len(waiters) + Len(waitAlls) < MaxOps

NextCallers ==
    \/ SpawnQuiet
    \/ Budget /\ KillProcessKeep
    \/ Budget /\ KillAllKeep
    \/ Budget /\ WaitForTask
    \/ Budget /\ WaitForAll
    \/ WaitForAllResume
    \/ Budget /\ GetProcess
    \/ Budget /\ GetAllProcesses
    \/ Budget /\ GetRunningProcesses
    \/ Budget /\ GetProcessOutput
    \/ Edit
    \/ On
    \/ Off
    \/ ClearHistory
    \/ OnExit
    \/ OnExitWaiters
    \/ OnError

SpecCallers == Init /\ [][NextCallers]_vars

(***************************************************************************)
(* The mapping cache alone: the mapping file holds any array of at most    *)
(* MaxMaps mappings, or a JSON value that is not an array.                 *)
(***************************************************************************)
InitMapCache ==
    /\ processes = <<>> /\ processCounter = 0 /\ outputBuffers = <<>>
    /\ recs = <<>> /\ bufs = <<>> /\ child = <<>> /\ listeners = <<>>
    /\ waiters = <<>> /\ waitAlls = <<>> /\ emitted = <<>>
    /\ handler = Idle /\ calls = <<>> /\ uncaught = 0
    /\ errorListeners = 0 /\ snapshots = <<>>
    /\ filePaths = <<>> /\ files = <<>> /\ locatorData = <<>>
    /\ loadedFiles = {} /\ got = <<>> /\ reads = <<>> /\ cli = NoCli
    /\ locatorMapData \in MapFiles

MapGet == \E key \in Paths \cup {MissingPath} : LocatorMapCacheGet(key)

NextMapCache == MapGet

SpecMapCache == InitMapCache /\ [][NextMapCache]_vars

(***************************************************************************)
(* The locator cache alone: any subset of the keys has a file, and each    *)
(* file holds a collection or cannot be loaded.                            *)
(***************************************************************************)
InitLocatorCache ==
    /\ processes = <<>> /\ processCounter = 0 /\ outputBuffers = <<>>
    /\ recs = <<>> /\ bufs = <<>> /\ child = <<>> /\ listeners = <<>>
    /\ waiters = <<>> /\ waitAlls = <<>> /\ emitted = <<>>
    /\ handler = Idle /\ calls = <<>> /\ uncaught = 0
    /\ errorListeners = 0 /\ snapshots = <<>>
    /\ locatorMapData = [array |-> TRUE, items |-> <<>>]
    /\ locatorData = <<>> /\ loadedFiles = {} /\ got = <<>>
    /\ reads = <<>> /\ cli = NoCli
    /\ \E ks \in SUBSET Keys :
           /\ filePaths = [k \in ks |-> FileOf(k)]
           /\ files \in [{FileOf(k) : k \in ks} -> FileContents]

CacheGet == \E key \in Keys \cup {NoFileKey} : LocatorCacheGet(key)
Modify ==
    \E k \in 1..Len(got) :
        /\ got[k].op = "LocatorCache.get"
        /\ got[k].value # <<>>
        /\ LET held == Held(got[k].key, got[k].value[1])
           IN  \/ \E n \in LocatorNames \cup {"added"} :
                      modify(k, Set(held, n, "#changed"))
               \/ \E n \in LocatorNames : modify(k, Delete(held, n))

PreloadAll == preloadAll
GetAvailableKeys == LocatorCacheGetAvailableKeys
IsLoaded == \E key \in Keys \cup {NoFileKey} : LocatorCacheIsLoaded(key)

NextLocatorCache ==
    \/ CacheGet
    \/ Modify
    \/ PreloadAll
    \/ GetAvailableKeys
    \/ IsLoaded

SpecLocatorCache == InitLocatorCache /\ [][NextLocatorCache]_vars

(***************************************************************************)
(* Progress: spawns that the OS may refuse, waits, output, exits and       *)
(* errors.  The event loop runs every handler that is due (the             *)
(* continuations of the exit listener), and every child that the OS        *)
(* launched exits in the end.                                              *)
(***************************************************************************)
NextLive ==
    \/ SpawnAny
    \/ WaitForProcess
    \/ OnData
    \/ OnExit
    \/ OnExitResume
    \/ OnExitWaiters
    \/ OnError

SpecLive ==
    /\ Init /\ [][NextLive]_vars
    /\ WF_vars(OnExit) /\ WF_vars(OnExitResume) /\ WF_vars(OnExitWaiters)

(***************************************************************************)
(* The CLI program from its start to its exit, for every command line;     *)
(* the runner exits with a code, or is terminated by a signal (code null), *)
(* or cannot be launched.  An exception that nothing catches ends the      *)
(* program before anything else runs.                                      *)
(***************************************************************************)
InitCli ==
    /\ processes = <<>> /\ processCounter = 0 /\ outputBuffers = <<>>
    /\ recs = <<>> /\ bufs = <<>> /\ child = <<>> /\ listeners = <<>>
    /\ waiters = <<>> /\ waitAlls = <<>> /\ emitted = <<>>
    /\ handler = Idle /\ calls = <<>> /\ uncaught = 0
    /\ errorListeners = 0 /\ snapshots = <<>>
    /\ filePaths = <<>> /\ files = <<>> /\ locatorData = <<>>
    /\ loadedFiles = {} /\ locatorMapData = <<>> /\ got = <<>> /\ reads = <<>>
    /\ \E argv \in Argvs : cli = [NoCli EXCEPT !.pc = "start", !.argv = argv]

StartCli == startCli
BootstrapSpawn == \E c \in Commands \cup {BadCommand} : bootstrapSpawn(c)
BootstrapWait == bootstrapWait
BootstrapExit == bootstrapExit
UncaughtException == uncaughtException
Waiting == cli.pc = "parsed" /\ waiters # <<>> /\ uncaught = 0
RunnerExit ==
    /\ Waiting
    /\ \E code \in ExitCodes \cup {Null} : onExit(1, code)
RunnerExitWaiters == Waiting /\ onExitWaiters
RunnerError == Waiting /\ onError(1)

NextCli ==
    \/ StartCli
    \/ BootstrapSpawn
    \/ BootstrapWait
    \/ BeforeAll
    \/ RunnerExit
    \/ RunnerExitWaiters
    \/ RunnerError
    \/ BootstrapExit
    \/ UncaughtException

SpecCli == InitCli /\ [][NextCli]_vars

(***************************************************************************)
(* Properties                                                              *)
(***************************************************************************)
Range(f) == {f[i] : i \in DOMAIN f}
InExitEvent == handler.kind = "exit" /\ handler.pc = "exit"
(* the exit of p has been delivered and its listener has returned *)
ExitHandled(p) == child[p].exited /\ handler.pid # p
(* the step is a direct waitForProcess call; w is the promise it returned *)
WaitCalled == /\ Len(waiters') = Len(waiters) + 1
              /\ ~waiters'[Len(waiters')].viaAll
Returned == waiters'[Len(waiters')]

(* C1 as stated: whenever a subscriber of the supervisor's 'exit' event     *)
(* runs for exit(name, code), getProcess(name) is a record that is not      *)
(* running, whose exitCode is code and whose endTime is set.                *)
C1_GetProcessTerminalInExitEvent ==
    InExitEvent =>
        LET r == getProcess(recs[handler.pid].name)
        IN  /\ r # Undefined
            /\ ~recs[r].isRunning
            /\ recs[r].exitCode = handler.code
            /\ recs[r].endTime # Null

(* C1 amended: whenever a subscriber of the supervisor's 'exit' event runs, *)
(* the record of the exiting process (the object its spawn returned) is not *)
(* running, its exitCode is the reported code and its endTime is set; and   *)
(* getProcess(name) is that record whenever the registry still holds it     *)
(* under its name: the registry holds under that name this record, or no    *)
(* record (after clearHistory), or a record spawned later under the name.   *)
C1_RecordTerminalInExitEvent ==
    InExitEvent =>
        LET rec == recs[handler.pid]
            r == getProcess(rec.name)
        IN  /\ ~rec.isRunning
            /\ rec.exitCode = handler.code
            /\ rec.endTime # Null
            /\ (r = handler.pid \/ r = Undefined \/ r > handler.pid)

C1_Witness ==
    /\ InExitEvent
    /\ getProcess(recs[handler.pid].name) = handler.pid
    /\ handler.code = 1

(* C2: no missed wakeup: once the exit of a process has been handled, no    *)
(* promise returned by waitForProcess for that process is still pending,    *)
(* whenever the call was made.                                              *)
C2_NoWaiterPendingAfterExit ==
    \A i \in 1..Len(waiters) :
        (waiters[i].pid # Undefined /\ ExitHandled(waiters[i].pid))
            => waiters[i].status # "pending"

(* C3: a waitForProcess call on a registered record that is not running     *)
(* returns a promise already resolved with the record's stored exitCode and *)
(* adds no listener to any child process.                                   *)
C3_TerminalWaitResolvesAtOnce ==
    [][WaitCalled =>
          LET r == getProcess(Returned.name)
          IN  (r # Undefined /\ ~recs[r].isRunning) =>
                  /\ Returned.status = "resolved"
                  /\ Returned.result = recs[r].exitCode
                  /\ Returned.calls = 1
                  /\ listeners' = listeners]_vars

C3_Witness ==
    \E i \in 1..Len(waiters) :
        /\ ~waiters[i].viaAll
        /\ waiters[i].status = "resolved"
        /\ waiters[i].result = 1
        /\ \A p \in Pids : i \notin Range(listeners[p])

(* C4: when a child process exits, every promise pending on it is among     *)
(* the listeners its exit calls; when the exit listener returns each of     *)
(* them has been resolved exactly once, with the exit code, which is the    *)
(* exitCode stored in the record; and sending a signal changes no promise   *)
(* and no listener.                                                         *)
C4_ExitResolvesEveryPendingWaiter ==
    [][/\ \A p \in Pids :
              (~child[p].exited /\ child'[p].exited) =>
                  \A i \in 1..Len(waiters) :
                      (waiters[i].pid = p /\ waiters[i].status = "pending")
                          => i \in Range(handler'.snap)
       /\ (InExitEvent /\ handler'.kind = "idle") =>
              \A i \in Range(handler.snap) :
                  /\ waiters[i].status = "pending"
                  /\ waiters'[i].status = "resolved"
                  /\ waiters'[i].calls = 1
                  /\ waiters'[i].result = handler.code
                  /\ waiters'[i].result = recs'[handler.pid].exitCode
       /\ \A p \in Pids :
              (p \in DOMAIN child' /\ child'[p].signalled # child[p].signalled
                 /\ child'[p].signalled)
                  => waiters' = waiters /\ listeners' = listeners]_vars

C4_Witness ==
    \E p \in Pids :
        /\ child[p].exited
        /\ recs[p].exitCode = Null
        /\ Cardinality({i \in Range(listeners[p]) :
                           /\ waiters[i].status = "resolved"
                           /\ waiters[i].calls = 1
                           /\ waiters[i].result = Null}) >= 2

C5_WaitForAllResolves ==
    \A k \in 1..Len(waitAlls) :
        LET call == waitAlls[k]
        IN  /\ (\A i \in call.inner : ExitHandled(waiters[i].pid))
                  => \A i \in call.inner : waiters[i].status = "resolved"
            /\ call.done =>
                  /\ DOMAIN call.results = call.names
                  /\ \A i \in call.inner :
                         call.results[waiters[i].name] = recs[waiters[i].pid].exitCode

(* what the child wrote to a stream, as text *)
Written(p, stream) == toString(Flatten(child[p].wrote[stream]))
(* the child has exited and all of its chunks have been delivered *)
AllDelivered(p) ==
    ExitHandled(p) /\ child[p].stdout = <<>> /\ child[p].stderr = <<>>

(* C7: round trip of the line reassembly: once every chunk has been fed and *)
(* the exit has flushed the fragment, the lines emitted, concatenated in    *)
(* emission order, are the concatenation of the chunks.                     *)
C7_RoundTrip ==
    AllDelivered(1) => Flatten(emitted[1].stdout) = Written(1, "stdout")

(* C8: for a piped child with captureOutput, once it has exited and all of  *)
(* its chunks have been delivered, the captured lines and the emitted lines *)
(* of each stream are what the child wrote to that stream.                  *)
C8_CapturedIsWritten ==
    \A p \in Pids :
        (recs[p].stdioConfig = "pipe" /\ recs[p].captureOutput /\ AllDelivered(p))
            => \A stream \in Streams :
                   /\ Flatten(recs[p][stream]) = Written(p, stream)
                   /\ Flatten(emitted[p][stream]) = Written(p, stream)

(* C9: a capturing piped child that writes "a" and then "b" and exits has   *)
(* captured stdout equal to the one entry "ab".                             *)
C9_FragmentFlushedAsOneLine ==
    \A p \in Pids :
        (/\ recs[p].stdioConfig = "pipe"
         /\ recs[p].captureOutput
         /\ child[p].wrote = ScriptAB
         /\ AllDelivered(p))
            => recs[p].stdout = << <<"a", "b">> >>

(* C10: a capturing piped child that writes "hello" and a newline and exits *)
(* has captured stdout equal to the one line "hello".                       *)
C10_HelloIsOneLine ==
    \A p \in Pids :
        (/\ recs[p].stdioConfig = "pipe"
         /\ recs[p].captureOutput
         /\ child[p].wrote = ScriptHello
         /\ AllDelivered(p))
            => recs[p].stdout = << <<"h", "e", "l", "l", "o">> >>

(* the step is a call whose result the caller keeps; Call is what it got *)
CallMade == Len(calls') = Len(calls) + 1
Call == calls'[Len(calls')]
(* the record p is the one the registry holds under its name *)
Registered(p) == getProcess(recs[p].name) = p

(* C11: spawn stores the record in the registry before it emits 'spawn':    *)
(* for every record, getProcess(record.name) gave that same record in the   *)
(* state in which the subscribers of its 'spawn' event ran.                 *)
C11_RegisteredBeforeSpawnEvent ==
    \A p \in Pids : emitted[p].spawn = p

C11_Witness ==
    /\ Len(recs) = 2
    /\ recs[1].name = recs[2].name
    /\ emitted[2].spawn = 2

(* C12: a record whose launch the OS rejected is never in the registry:     *)
(* every name of the registry leads to a child that the OS launched.        *)
C12_FailedLaunchNotRegistered ==
    \A n \in DOMAIN processes : child[processes[n]].launched

(* C13: no step replaces the record that the registry holds under a name by *)
(* another record: a name that stays in the registry keeps its record.      *)
C13_NoRecordReplaced ==
    [][\A n \in DOMAIN processes :
           n \in DOMAIN processes' => processes'[n] = processes[n]]_vars

(* C14: when spawnMultiple(tasks) returns, the map it returns has one entry *)
(* per task, and each entry name -> record is the entry that the registry   *)
(* holds under that name.                                                   *)
C14_ReturnedMapIsRegistry ==
    [][(CallMade /\ Call.op = "spawnMultiple") =>
          /\ Cardinality(DOMAIN Call.value) = Len(Call.arg)
          /\ \A n \in DOMAIN Call.value : Get(processes', n) = Call.value[n]]_vars

(* C15: when spawnMultiple returns for two tasks with the same command, the *)
(* two records it created are registered under two distinct names and the   *)
(* map it returns has two names.                                            *)
C15_TwoTasksTwoNames ==
    [][(/\ CallMade
        /\ Call.op = "spawnMultiple"
        /\ Len(Call.arg) = 2
        /\ Call.arg[1].command = Call.arg[2].command) =>
          /\ Cardinality(DOMAIN Call.value) = 2
          /\ Cardinality({n \in DOMAIN processes' : processes'[n] > Len(recs)}) = 2]_vars

(* the step is an event of the child a: a chunk, its exit (any stage of the *)
(* exit listener), an error, or a signal sent to it                         *)
EventOf(a) ==
    \/ child'[a] # child[a]
    \/ handler.kind = "exit" /\ handler.pid = a /\ handler' # handler

(* the record b, its fragments, its captured and emitted output, its child  *)
(* and the waits on it are left as they were                                *)
Untouched(b) ==
    /\ recs'[b] = recs[b]
    /\ bufs'[b] = bufs[b]
    /\ Get(outputBuffers', recs[b].name) = Get(outputBuffers, recs[b].name)
    /\ Get(processes', recs[b].name) = Get(processes, recs[b].name)
    /\ emitted'[b] = emitted[b]
    /\ child'[b] = child[b]
    /\ listeners'[b] = listeners[b]
    /\ \A i \in 1..Len(waiters) : waiters[i].pid = b => waiters'[i] = waiters[i]

(* C16: failure isolation: for two records a and b that the registry holds  *)
(* under their (distinct) names, every event of a - a chunk, the exit, an   *)
(* error, the error of a refused launch, a signal - leaves b's record, b's  *)
(* fragments, b's captured output and the waits on b unchanged; and a       *)
(* spawnMultiple in which the launch of one task is refused still creates a *)
(* running record with a launched child for every other task.               *)
C16_FailureIsolation ==
    [][/\ \A a, b \in Pids :
              (a # b /\ Registered(a) /\ Registered(b) /\ EventOf(a))
                  => Untouched(b)
       /\ (CallMade /\ Call.op = "spawnMultiple") =>
              \A i \in 1..Len(Call.arg) :
                  Launches(Call.arg[i].command) =>
                      /\ child'[Len(recs) + i].launched
                      /\ recs'[Len(recs) + i].isRunning
                      /\ recs'[Len(recs) + i].exitCode = Null]_vars

C16_Witness ==
    \E a, b \in Pids :
        /\ a # b /\ Registered(a) /\ Registered(b)
        /\ ~child[a].launched /\ child[a].errors = 1
        /\ recs[b].isRunning
        /\ bufs[b].stdout # <<>>
        /\ \E i \in 1..Len(waiters) :
               waiters[i].pid = b /\ waiters[i].status = "pending"

(* C17: a killProcess call for a name that the registry does not hold, or   *)
(* whose record is not running, returns false, calls process.kill on no     *)
(* child and changes nothing: no signal is delivered and nothing is raised. *)
C17_KillOfStoppedReturnsFalse ==
    [][(/\ CallMade
        /\ Call.op = "killProcess"
        /\ (Call.pid = Undefined \/ Call.pid \notin Call.running)) =>
          /\ Call.value = FALSE
          /\ Call.targets = {}
          /\ child' = child
          /\ recs' = recs
          /\ processes' = processes
          /\ handler' = handler]_vars

C17_Witness ==
    \E k \in 1..Len(calls) :
        /\ calls[k].op = "killProcess"
        /\ calls[k].pid # Undefined
        /\ ~recs[calls[k].pid].isRunning
        /\ calls[k].pid \notin calls[k].running
        /\ calls[k].value = FALSE
        /\ \A p \in Pids : ~child[p].signalled

(* C18: a killProcess call on a running record calls process.kill on that   *)
(* record's child, which is signalled when it is alive, and returns true    *)
(* while the record is still running (it does not wait for the exit); a     *)
(* killAll call signals exactly the records that are running when it is     *)
(* made.                                                                    *)
C18_KillSignalsTheRunning ==
    [][/\ (/\ CallMade
           /\ Call.op = "killProcess"
           /\ Call.pid # Undefined
           /\ Call.pid \in Call.running) =>
              /\ Call.value = TRUE
              /\ Call.targets = {Call.pid}
              /\ Call.pid \in Call.alive => child'[Call.pid].signalled
              /\ recs' = recs
              /\ \A p \in Pids \ {Call.pid} : child'[p] = child[p]
       /\ (CallMade /\ Call.op = "killAll") =>
              /\ Call.targets = Call.running
              /\ \A p \in Call.running \cap Call.alive : child'[p].signalled
              /\ \A p \in Pids \ Call.running : child'[p] = child[p]
              /\ recs' = recs]_vars

(* C19: after killAll has signalled two running processes A and B and both  *)
(* have exited, a waitForAll that has returned holds an exit code that is   *)
(* not null for both names.                                                 *)
C19_KillAllThenWaitForAll ==
    \A k \in 1..Len(waitAlls), j \in 1..Len(calls) :
        (/\ calls[j].op = "killAll"
         /\ Cardinality(calls[j].targets) = 2
         /\ \A p \in calls[j].targets : ExitHandled(p) /\ Registered(p)
         /\ waitAlls[k].done) =>
            \A p \in calls[j].targets :
                /\ recs[p].name \in DOMAIN waitAlls[k].results
                /\ waitAlls[k].results[recs[p].name] # Null

(* C20: a killProcess call whose signal could not be delivered, because the *)
(* child was no longer alive when process.kill was called on it, does not   *)
(* return true: the failure is reported to the caller.                      *)
C20_FailedDeliveryReported ==
    \A k \in 1..Len(calls) :
        (calls[k].op = "killProcess" /\ calls[k].targets \ calls[k].alive # {})
            => calls[k].value # TRUE

(* C21: an 'error' notification for a record whose child is still alive     *)
(* leaves the record running: every record whose child the OS launched and  *)
(* that has not exited is running.                                          *)
C21_ErrorKeepsRunning ==
    \A p \in Pids : Alive(p) => recs[p].isRunning

(* the lifecycle state that a record shows: running or not, and the exit    *)
(* code it holds                                                            *)
Lifecycle(rec) == <<rec.isRunning, rec.exitCode>>

(* C22: the lifecycle of a record only moves forward: a record that is not  *)
(* running makes no further transition, it never runs again and the exit    *)
(* code it shows stays as it is.                                            *)
C22_LifecycleForward ==
    [][\A p \in Pids :
           ~recs[p].isRunning => Lifecycle(recs'[p]) = Lifecycle(recs[p])]_vars

(* C23: exitCode and endTime of a record are written at most once: once     *)
(* either holds a value, no step changes it.                                *)
C23_WriteOnce ==
    [][\A p \in Pids :
           /\ recs[p].exitCode # Null => recs'[p].exitCode = recs[p].exitCode
           /\ recs[p].endTime # Null => recs'[p].endTime = recs[p].endTime]_vars

(* C24: an error of a child is reported only as an 'error' event of the     *)
(* supervisor, whoever subscribes to it: reporting it never throws, so no   *)
(* exception has left a listener of the supervisor.                         *)
C24_ErrorNeverThrown == uncaught = 0

(* C25: the mode of a process follows streamLogs.  A record in inherited    *)
(* mode has no captured line and no emitted stdout/stderr line, whatever    *)
(* captureOutput is; in piped mode every chunk that a stream delivers goes  *)
(* through the line reassembly: it extends the pending fragment or comes    *)
(* out as lines.                                                            *)
C25_ModeFollowsStreamLogs ==
    [][\A p \in 1..Len(recs') : \A stream \in Streams :
           /\ recs'[p].stdioConfig = "inherit" =>
                  recs'[p][stream] = <<>> /\ emitted'[p][stream] = <<>>
           /\ (/\ p \in Pids
               /\ recs[p].stdioConfig = "pipe"
               /\ child'[p][stream] # child[p][stream]) =>
                  <<bufs', emitted'[p][stream]>> # <<bufs, emitted[p][stream]>>]_vars

(* what the caller reads in the k-th map handed out *)
Read(k) == Entries(snapshots[k])

(* C26: the map that getAllProcesses or getRunningProcesses returned is     *)
(* independent of the registry: a caller's set or delete on it changes      *)
(* nothing that getProcess, the getters, waitForProcess or the kills read   *)
(* (the registry, the records, the children, the waits), and no other step, *)
(* a later spawn included, changes what the caller reads in the map.        *)
C26_SnapshotIndependent ==
    [][\A k \in 1..Len(snapshots) :
           IF snapshots'[k].edits # snapshots[k].edits
           THEN <<processes', recs', child', waiters'>>
                    = <<processes, recs, child, waiters>>
           ELSE Read(k)' = Read(k)]_vars

(* a caller has emptied the map it got while the registry holds two records *)
C26_Witness ==
    \E k \in 1..Len(snapshots) :
        /\ snapshots[k].edits > 0
        /\ snapshots[k].entries = <<>>
        /\ DOMAIN processes = TaskNames

(* the step is a call of killProcess, killAll, waitForProcess, waitForAll   *)
(* (or its continuation), a getter, on or off                               *)
CallerStep ==
    \/ CallMade
    \/ Len(waiters') > Len(waiters)
    \/ waitAlls' # waitAlls
    \/ Len(snapshots') > Len(snapshots)
    \/ errorListeners' # errorListeners

(* C27: no call of killProcess, killAll, waitForProcess, waitForAll,        *)
(* getProcess, getAllProcesses, getRunningProcesses, getProcessOutput, on   *)
(* or off changes a field of a record or the set of registered names.       *)
C27_CallersLeaveRecords ==
    [][CallerStep => recs' = recs /\ DOMAIN processes' = DOMAIN processes]_vars

(* killProcess has returned true for a record that is still running, while  *)
(* a wait is pending on it and 'error' has a subscriber                     *)
C27_Witness ==
    /\ Len(calls) = 1
    /\ calls[1].op = "killProcess"
    /\ calls[1].value = TRUE
    /\ \A p \in calls[1].targets : recs[p].isRunning
    /\ \E i \in 1..Len(waiters) : waiters[i].status = "pending"
    /\ errorListeners = 1

(* C28: a record that is retrievable under its name stays retrievable, the  *)
(* same record with its output and exit code, through every step but one    *)
(* that clears the history, and that step leaves the registry empty.        *)
C28_RetrievableUntilCleared ==
    [][\A p \in Pids :
           (Registered(p) /\ ~Registered(p)') => processes' = <<>>]_vars

(* C29: LocatorMapCache.get(path) returns a mapping whose path is the given *)
(* path when the file holds one, and the default mapping { name: '',        *)
(* path: '' } when it holds none or the lookup fails.                       *)
C29_MapGetFoundOrDefault ==
    \A k \in 1..Len(got) :
        got[k].op = "LocatorMapCache.get" =>
            /\ Len(got[k].value) = 1
            /\ IF \E i \in 1..Len(locatorMapData.items) :
                      locatorMapData.items[i].path = got[k].key
               THEN got[k].value[1].path = got[k].key
               ELSE got[k].value[1] = DefaultMap

(* the step is a LocatorCache.get call; Got is what it returned *)
GetCalled == Len(got') = Len(got) + 1 /\ got'[Len(got')].op = "LocatorCache.get"
Got == got'[Len(got')]

(* C30: whatever callers have done to the collections they got, get(key)    *)
(* returns the collection as the file of the key holds it, and null when    *)
(* the key has no file or its file cannot be loaded.                        *)
C30_GetReturnsFileContent ==
    [][GetCalled =>
          IF Got.key \in DOMAIN filePaths /\ files[filePaths[Got.key]].ok
          THEN /\ Got.value # <<>>
               /\ (IF Got.value[1].alias THEN locatorData'[Got.key]
                                          ELSE Got.value[1].entries)
                      = files[filePaths[Got.key]].json
          ELSE Got.value = <<>>]_vars

(* a caller has modified the collection it got for a key, and a later get   *)
(* of the same key has returned the collection of the file                  *)
C30_Witness ==
    /\ Len(got) = 2
    /\ got[1].key = got[2].key
    /\ got[1].edits > 0
    /\ got[2].value # <<>>
    /\ got[2].edits = 0
    /\ got[1].value[1].entries # got[2].value[1].entries
    /\ got[2].value[1].entries = files[filePaths[got[2].key]].json

(* C32: a record of the registry that is running has no exit code and no    *)
(* endTime, and one that is not running has its endTime set.                *)
C32_RunningHasNoEnd ==
    \A n \in DOMAIN processes :
        LET rec == recs[processes[n]]
        IN  IF rec.isRunning
            THEN rec.exitCode = Null /\ rec.endTime = Null
            ELSE rec.endTime # Null

(* the registry holds a record that an error stopped and one that exited    *)
(* with a code                                                              *)
C32_Witness ==
    \E n, m \in DOMAIN processes :
        /\ ~recs[processes[n]].isRunning
        /\ recs[processes[n]].exitCode = Null
        /\ ~child[processes[n]].exited
        /\ ~recs[processes[m]].isRunning
        /\ recs[processes[m]].exitCode # Null

(* the stream that is not `stream` *)
Other(stream) == IF stream = "stdout" THEN "stderr" ELSE "stdout"

(* C33: the two streams of a process are reassembled independently: a step  *)
(* in which a chunk of one stream is delivered leaves the pending fragment, *)
(* the captured lines and the emitted lines of the other stream, of every   *)
(* record, as they were.                                                    *)
C33_StreamsIndependent ==
    [][\A p \in Pids : \A stream \in Streams :
           child'[p][stream] # child[p][stream] =>
               /\ \A b \in 1..Len(bufs) :
                      bufs'[b][Other(stream)] = bufs[b][Other(stream)]
               /\ \A q \in Pids :
                      /\ recs'[q][Other(stream)] = recs[q][Other(stream)]
                      /\ emitted'[q][Other(stream)] = emitted[q][Other(stream)]]_vars

(* chunks of both streams of one process have been delivered and each has   *)
(* left a fragment: "b" on stdout after the line "a", "e" on stderr         *)
C33_Witness ==
    \E p \in Pids :
        /\ child[p].wrote = ScriptBoth
        /\ Get(outputBuffers, recs[p].name) = p
        /\ bufs[p].stdout = <<"b">>
        /\ bufs[p].stderr = <<"e">>
        /\ Len(emitted[p].stdout) = 1

(* the record has a default name `${command}_${N}` *)
DefaultNamed(p) == recs[p].name[2] # 0

(* C34: the counter of the default names is monotonic, so that no default   *)
(* name is generated twice: two records with default names, whenever they   *)
(* were created, have different names.                                      *)
C34_DefaultNamesDiffer ==
    \A p, q \in Pids :
        (p # q /\ DefaultNamed(p) /\ DefaultNamed(q)) => recs[p].name # recs[q].name

(* C36: the pending fragment used for a live process is its own: for every  *)
(* piped record whose child is alive, the buffer found under the record's   *)
(* name is the buffer that was created for that record, so that it is       *)
(* shared with no other process, discarded by no other exit, and there for  *)
(* every chunk.                                                             *)
C36_OwnFragment ==
    \A p \in Pids :
        (Alive(p) /\ recs[p].stdioConfig = "pipe")
            => Get(outputBuffers, recs[p].name) = p

(* the supervisor has begun to emit the 'exit' event of record p *)
ExitEmitted(p) ==
    /\ child[p].exited
    /\ ~(handler.kind = "exit" /\ handler.pid = p /\ handler.pc \in Streams)

(* C37: the events of a record come in lifecycle order: its 'spawn' event   *)
(* has been emitted when any listener of its child runs, and once its       *)
(* 'exit' event is emitted no stdout or stderr event of the record follows. *)
C37_EventsInLifecycleOrder ==
    [][\A p \in Pids :
           /\ emitted[p].spawn # Undefined
           /\ ExitEmitted(p) =>
                  \A stream \in Streams : emitted'[p][stream] = emitted[p][stream]]_vars

(* the i-th waitForProcess call is pending on a record that is not running *)
StoppedPending(i) ==
    /\ i <= Len(waiters)
    /\ waiters[i].status = "pending"
    /\ ~recs[waiters[i].pid].isRunning

(* C35: a wait that is pending on a record that has stopped running, by its *)
(* exit or by an error, is resolved in the end.                             *)
C35_StoppedWaitResolves ==
    \A i \in 1..MaxWaits :
        StoppedPending(i) ~> (i <= Len(waiters) /\ waiters[i].status = "resolved")

(* C31: the browser is launched headless exactly when the --headless value *)
(* that the CLI parsed is 'true' (the default): the parsed value, the       *)
(* HEADLESS variable and the headless flag of the launch agree.             *)
C31_HeadlessAgrees ==
    cli.launch # <<>> =>
        /\ cli.env[1].HEADLESS = cli.opts[1].headless
        /\ cli.launch[1].headless = (cli.opts[1].headless = "true")

(* C38: the CLI exits with status 0 only when the test runner exited with   *)
(* code 0.                                                                  *)
C38_ZeroOnlyForZero ==
    cli.status = <<0>> =>
        /\ Len(recs) = 1
        /\ child[1].exited
        /\ recs[1].exitCode = 0

(* the files that the step has read *)
NewReads == SubSeq(reads', Len(reads) + 1, Len(reads'))

(* C39: isLoaded(key) holds exactly when a collection of the key is cached; *)
(* a file is read only by a get or a preloadAll, for a key that is not yet  *)
(* loaded, and at most once by a call; a load that succeeds makes the key   *)
(* loaded; a get whose load fails returns null and leaves the cache as it   *)
(* was, and the next get of the key reads the file again; getAvailableKeys  *)
(* and isLoaded read no file and load nothing.                              *)
C39_LazyLoading ==
    /\ [](\A key \in Keys \cup {NoFileKey} :
              isLoaded(key) <=> key \in DOMAIN locatorData)
    /\ [][/\ loadedFiles \subseteq loadedFiles'
          /\ NewReads # <<>> =>
                 /\ Got.op \in {"LocatorCache.get", "LocatorCache.preloadAll"}
                 /\ \A i \in 1..Len(NewReads) :
                        /\ \E key \in DOMAIN filePaths \ loadedFiles :
                               /\ filePaths[key] = NewReads[i]
                               /\ files[filePaths[key]].ok <=> key \in loadedFiles'
                        /\ \A j \in 1..Len(NewReads) :
                               NewReads[j] = NewReads[i] => j = i
          /\ (/\ Len(got') = Len(got) + 1
              /\ Got.op = "LocatorCache.get"
              /\ Got.key \in DOMAIN filePaths \ loadedFiles) =>
                 /\ NewReads = <<filePaths[Got.key]>>
                 /\ ~files[filePaths[Got.key]].ok =>
                        /\ Got.value = <<>>
                        /\ locatorData' = locatorData
                        /\ loadedFiles' = loadedFiles
          /\ (/\ Len(got') = Len(got) + 1
              /\ Got.op \in {"LocatorCache.getAvailableKeys",
                             "LocatorCache.isLoaded"}) =>
                 /\ locatorData' = locatorData
                 /\ loadedFiles' = loadedFiles
                 /\ reads' = reads]_vars

(* preloadAll has loaded one file and failed to load another, after which   *)
(* a get of the second has read its file again and returned null            *)
C39_Witness ==
    /\ Len(got) = 2
    /\ got[1].op = "LocatorCache.preloadAll"
    /\ got[2].op = "LocatorCache.get"
    /\ got[2].value = <<>>
    /\ Len(reads) = 3
    /\ reads[3] = filePaths[got[2].key]
    /\ Cardinality(loadedFiles) = 1
    /\ \A key \in Keys : isLoaded(key) <=> key # got[2].key

====
